---- MODULE Spec2Model ----
(***************************************************************************)
(* State-machine model of kagpow/sshmaster.                                *)
(*                                                                         *)
(* Tunnel layer, src/controllers/ssh_controllers.py: the module-level list *)
(* `proxies` and the coroutines connect_ssh, verify_ssh and                *)
(* kill_proxy_on_port, run by cooperative asyncio tasks that interleave    *)
(* only at their awaits. The awaited calls (asyncssh.connect,              *)
(* forward_socks, get_proxy_ip, kill_ssh_connection) are the environment:  *)
(* each returns or raises one of the exception classes connect_ssh tells   *)
(* apart.                                                                  *)
(*   Spec      tasks run the three coroutines concurrently                 *)
(*   SpecCall  one call in flight at a time                                *)
(*                                                                         *)
(* Entity layer, src/models/models.py: the Pony entities SSH and Port.     *)
(* Each decorated mutator is one transaction: its attribute writes and the *)
(* before_update hook of the entity it changed are one step. The callers   *)
(* of the entity operations (the orchestrator) are not part of the source  *)
(* files; its workers follow the design document: read need_ssh, select a  *)
(* credential, bind it, establish the tunnel, store the outcome.           *)
(*   SpecStore   entity operations and workers interleaved, clock at rest  *)
(*   SpecClock   the same with time passing and deletion, one worker       *)
(*   SpecTime    one port through its whole life as time passes            *)
(*   SpecDelete  the entity operations with delete_if_died, one worker     *)
(*   SpecUnique  the workers under the unique policy, ports never reset    *)
(*   SpecSelect  get_ssh_for_port over every table and every history       *)
(* was_connected is a history variable: it records, for the ports in       *)
(* watched, the credentials they have been connected with, and is read by  *)
(* no step.                                                                *)
(*                                                                         *)
(* Left out: get_algs_config (pure data), logging and run_time(), and the  *)
(* attributes no operation of the source reads: Model.last_checked,        *)
(* Model.last_modified and Port.proxy_address (so Model.reset_status of a  *)
(* credential, which writes last_checked alone, has no step of its own).   *)
(***************************************************************************)
EXTENDS Integers, Sequences, FiniteSets, TLC

\* ------------------------------------------------------------------ bounds
NumTasks == 2
NumLocalPorts == 2
MaxRetry == 1
MaxConns == 2
NumPorts == 2
NumCreds == 2
NumWorkers == 2
MaxTime == 1

\* connect_ssh(..., retry: int = 3): the budget verify_ssh runs with.
DefaultRetry == 3

Tasks == 1..NumTasks
LocalPorts == 1..NumLocalPorts
ConnIds == 1..MaxConns
NoConn == 0
NoPort == 0

Ports == 1..NumPorts
Creds == 1..NumCreds
Workers == 1..NumWorkers
NoSsh == 0
NoTime == -1

\* Outcomes of the awaited library calls. "ok" is a normal return; the others
\* are the exception classes the except clauses of connect_ssh tell apart.
ConnectOutcomes == {"ok", "OSError", "Error", "TimeoutError"}
ForwardOutcomes == {"ok", "OSError", "Error"}

VARIABLES
  \* ---- tunnel layer
  proxies,          \* the module-level list `proxies` of ProxyInfo records
  open,             \* the SSH connections that are open
  listen,           \* listen[c]: the local port connection c forwards, or NoPort
  timeoutIsOSError, \* the interpreter: asyncio.TimeoutError is a subclass of
                    \* OSError from Python 3.11 on, and is not before
  op,               \* op[t]: the coroutine task t runs
  pc,               \* pc[t]: the await task t is suspended at
  lport,            \* connect_ssh's `port`
  retry,            \* connect_ssh's `retry` in the innermost frame
  budget,           \* the `retry` the outermost call was made with
  attempts,         \* number of asyncssh.connect calls made by the call
  conn,             \* connect_ssh's `connection` in the innermost frame
  victim,           \* kill_proxy_on_port's `proxy.connection` being closed
  lastExc,          \* the last exception raised inside connect_ssh's try
  refusedOnly,      \* every attempt so far ended in an OSError of asyncssh.connect
  result,           \* what the call returned or raised
  \* ---- entity layer
  now,              \* datetime.now()
  stored,           \* the SSH rows in the database
  is_live,          \* SSH.is_live: "None" (not checked), "True" or "False"
  ssh,              \* Port.ssh, and with it its reverse SSH.port
  is_connected,     \* Port.is_connected
  is_working,       \* Port.is_working
  public_ip,        \* Port.public_ip
  time_connected,   \* Port.time_connected
  used_ssh_list,    \* Port.used_ssh_list, and with it its reverse SSH.used_ports
  wpc,              \* wpc[w]: where orchestrator worker w stands
  wport,            \* the port worker w works on
  wsel,             \* what get_ssh_for_port returned to worker w
  wunique,          \* the `unique` worker w selected with
  watched,          \* the ports whose connections are recorded
  was_connected     \* history: the credentials a watched port has been
                    \* connected with since its history was last cleared

tunnelVars == <<proxies, open, listen, timeoutIsOSError, op, pc, lport, retry,
                budget, attempts, conn, victim, lastExc, refusedOnly, result>>

storeVars == <<now, stored, is_live, ssh, is_connected, is_working, public_ip,
               time_connected, used_ssh_list, wpc, wport, wsel, wunique,
               watched, was_connected>>

vars == <<tunnelVars, storeVars>>

\* ------------------------------------------------------------ the registry

Min(S) == CHOOSE x \in S : \A y \in S : x <= y

ProxyInfo(p, c) == [port |-> p, connection |-> c]

MatchingIndexes(p) == {i \in DOMAIN proxies : proxies[i].port = p}

HasProxy(p) == MatchingIndexes(p) # {}

\* The first element of `proxies` whose port matches: the one the for loop of
\* kill_proxy_on_port stops at.
FirstProxy(p) == proxies[Min(MatchingIndexes(p))]

RemoveAt(s, i) == SubSeq(s, 1, i - 1) \o SubSeq(s, i + 1, Len(s))

RemoveFirstProxy(p) == RemoveAt(proxies, Min(MatchingIndexes(p)))

\* ------------------------------------------------------- the environment

Referenced(c) ==
  \/ \E i \in DOMAIN proxies : proxies[i].connection = c
  \/ \E t \in Tasks : conn[t] = c \/ victim[t] = c

\* Identifiers no open connection and no reference uses: a new connection
\* object takes the least of them.
FreeIds == {c \in ConnIds : c \notin open /\ ~Referenced(c)}

\* The operating system lets one listener bind a local port at a time.
PortFree(p) == \A c \in open : listen[c] # p

\* utils.get_free_port(): a port nothing listens on at the time of the call.
FreePorts == {p \in LocalPorts : PortFree(p)}

\* utils.kill_ssh_connection(c): the connection and its listener are gone.
OpenAfterKill(c) == open \ {c}
ListenAfterKill(c) == [d \in ConnIds |-> IF d = c THEN NoPort ELSE listen[d]]

\* ------------------------------------------------------------- connect_ssh

\* A handler that retries protocol errors as well.
IsRetryableOrProtocol(exc) ==
  \/ exc \in {"OSError", "Error"}
  \/ exc = "TimeoutError" /\ timeoutIsOSError

\* SSHError declared as a subclass of OSError: the failed IP lookup is retried.
IsRetryableOrSSHError(exc) ==
  \/ exc \in {"OSError", "SSHError"}
  \/ exc = "TimeoutError" /\ timeoutIsOSError

\* except OSError: the exceptions that clause catches.
IsRetryable(exc) ==
  \/ exc = "OSError"
  \/ exc = "TimeoutError" /\ timeoutIsOSError

\* if retry >= 0: one retry too many.
ShouldRetryOffByOne(r) == r >= 0

\* if retry > 0:
ShouldRetry(r) == r > 0

\* verify_ssh without its except clause: SSHError reaches the caller.
FailurePropagates(t) == "SSHError"

\* What the caller of connect_ssh sees when it raises SSHError: verify_ssh
\* turns it into False.
Failure(t) == IF op[t] = "verify_ssh" THEN "False" ELSE "SSHError"

\* connect_ssh from its first line to its first await: the port is fixed, then
\* kill_proxy_on_port(port) either finds nothing (SSHError, ignored) and the
\* coroutine goes on to await asyncssh.connect, or removes the first session
\* on the port and awaits the close of its connection.
EnterConnectSsh(t, p, r) ==
  /\ lport' = [lport EXCEPT ![t] = p]
  /\ retry' = [retry EXCEPT ![t] = r]
  /\ conn' = [conn EXCEPT ![t] = NoConn]
  /\ IF HasProxy(p)
       THEN /\ proxies' = RemoveFirstProxy(p)
            /\ victim' = [victim EXCEPT ![t] = FirstProxy(p).connection]
            /\ pc' = [pc EXCEPT ![t] = "kill_old"]
            /\ attempts' = attempts
       ELSE /\ proxies' = proxies
            /\ victim' = victim
            /\ pc' = [pc EXCEPT ![t] = "connect"]
            /\ attempts' = [attempts EXCEPT ![t] = @ + 1]

\* The call ends by raising SSHError.
RaiseSSHError(t) ==
  /\ pc' = [pc EXCEPT ![t] = "done"]
  /\ result' = [result EXCEPT ![t] = Failure(t)]
  /\ UNCHANGED <<proxies, victim, attempts, lport, retry, conn>>

\* An exception raised inside the inner try of connect_ssh: OSError re-enters
\* connect_ssh with retry - 1 while retry > 0; everything else, and OSError
\* with the budget spent, leaves as SSHError.
Raise(t, exc) ==
  /\ lastExc' = [lastExc EXCEPT ![t] = exc]
  /\ IF IsRetryable(exc) /\ ShouldRetry(retry[t])
       THEN EnterConnectSsh(t, lport[t], retry[t] - 1) /\ result' = result
       ELSE RaiseSSHError(t)

StartConnect(t, p, r) ==
  /\ UNCHANGED storeVars
  /\ pc[t] = "idle"
  /\ op' = [op EXCEPT ![t] = "connect_ssh"]
  /\ budget' = [budget EXCEPT ![t] = r]
  /\ EnterConnectSsh(t, p, r)
  /\ UNCHANGED <<open, listen, timeoutIsOSError, lastExc, refusedOnly, result>>

\* kill_proxy_on_port's await of kill_ssh_connection returns inside connect_ssh:
\* the coroutine goes on to asyncssh.connect.
KillOldDone(t) ==
  /\ UNCHANGED storeVars
  /\ pc[t] = "kill_old"
  /\ open' = OpenAfterKill(victim[t])
  /\ listen' = ListenAfterKill(victim[t])
  /\ victim' = [victim EXCEPT ![t] = NoConn]
  /\ pc' = [pc EXCEPT ![t] = "connect"]
  /\ attempts' = [attempts EXCEPT ![t] = @ + 1]
  /\ UNCHANGED <<proxies, timeoutIsOSError, op, lport, retry, budget, conn,
                 lastExc, refusedOnly, result>>

\* await asyncssh.connect(...) returns a connection or raises.
ConnectReturns(t, outcome) ==
  /\ UNCHANGED storeVars
  /\ pc[t] = "connect"
  /\ refusedOnly' = [refusedOnly EXCEPT ![t] = @ /\ outcome = "OSError"]
  /\ IF outcome = "ok"
       THEN /\ FreeIds # {}
            /\ open' = open \cup {Min(FreeIds)}
            /\ conn' = [conn EXCEPT ![t] = Min(FreeIds)]
            /\ pc' = [pc EXCEPT ![t] = "forward"]
            /\ UNCHANGED <<proxies, victim, attempts, lport, retry, lastExc, result>>
       ELSE /\ Raise(t, outcome)
            /\ open' = open
  /\ UNCHANGED <<listen, timeoutIsOSError, op, budget>>

\* await connection.forward_socks('', port) binds the listener or raises; it
\* cannot bind a port another open connection listens on.
ForwardReturns(t, outcome) ==
  /\ UNCHANGED storeVars
  /\ pc[t] = "forward"
  /\ refusedOnly' = [refusedOnly EXCEPT ![t] = FALSE]
  /\ IF outcome = "ok"
       THEN /\ PortFree(lport[t])
            /\ listen' = [listen EXCEPT ![conn[t]] = lport[t]]
            /\ pc' = [pc EXCEPT ![t] = "lookup"]
            /\ UNCHANGED <<proxies, victim, attempts, lport, retry, conn, lastExc, result>>
       ELSE /\ Raise(t, outcome)
            /\ listen' = listen
  /\ UNCHANGED <<open, timeoutIsOSError, op, budget>>

\* await get_proxy_ip(proxy_info.address) returns an address or nothing. With an
\* address connect_ssh appends the session and returns it, and verify_ssh goes
\* straight on to await the close of the connection; with nothing connect_ssh
\* awaits kill_ssh_connection(connection).
LookupReturns(t, ip) ==
  /\ UNCHANGED storeVars
  /\ pc[t] = "lookup"
  /\ IF ip
       THEN /\ proxies' = Append(proxies, ProxyInfo(lport[t], conn[t]))
            /\ IF op[t] = "verify_ssh"
                 THEN /\ pc' = [pc EXCEPT ![t] = "verify_kill"]
                      /\ result' = result
                 ELSE /\ pc' = [pc EXCEPT ![t] = "done"]
                      /\ result' = [result EXCEPT ![t] = "ProxyInfo"]
       ELSE /\ pc' = [pc EXCEPT ![t] = "kill_failed"]
            /\ UNCHANGED <<proxies, result>>
  /\ UNCHANGED <<open, listen, timeoutIsOSError, op, lport, retry, budget,
                 attempts, conn, victim, lastExc, refusedOnly>>

\* The close of the unusable connection returns; raise SSHError("Cannot connect
\* to forwarded proxy.") inside the inner try.
KillFailedDone(t) ==
  /\ UNCHANGED storeVars
  /\ pc[t] = "kill_failed"
  /\ open' = OpenAfterKill(conn[t])
  /\ listen' = ListenAfterKill(conn[t])
  /\ Raise(t, "SSHError")
  /\ UNCHANGED <<timeoutIsOSError, op, budget, refusedOnly>>

\* -------------------------------------------------------------- verify_ssh

StartVerify(t, p) ==
  /\ UNCHANGED storeVars
  /\ pc[t] = "idle"
  /\ p \in FreePorts
  /\ op' = [op EXCEPT ![t] = "verify_ssh"]
  /\ budget' = [budget EXCEPT ![t] = DefaultRetry]
  /\ EnterConnectSsh(t, p, DefaultRetry)
  /\ UNCHANGED <<open, listen, timeoutIsOSError, lastExc, refusedOnly, result>>

\* await utils.kill_ssh_connection(proxy_info.connection) returns; return True.
VerifyKillDone(t) ==
  /\ UNCHANGED storeVars
  /\ pc[t] = "verify_kill"
  /\ open' = OpenAfterKill(conn[t])
  /\ listen' = ListenAfterKill(conn[t])
  /\ pc' = [pc EXCEPT ![t] = "done"]
  /\ result' = [result EXCEPT ![t] = "True"]
  /\ UNCHANGED <<proxies, timeoutIsOSError, op, lport, retry, budget, attempts,
                 conn, victim, lastExc, refusedOnly>>

\* ------------------------------------------------------ kill_proxy_on_port

StartTeardown(t, p) ==
  /\ UNCHANGED storeVars
  /\ pc[t] = "idle"
  /\ op' = [op EXCEPT ![t] = "kill_proxy_on_port"]
  /\ lport' = [lport EXCEPT ![t] = p]
  /\ IF HasProxy(p)
       THEN /\ proxies' = RemoveFirstProxy(p)
            /\ victim' = [victim EXCEPT ![t] = FirstProxy(p).connection]
            /\ pc' = [pc EXCEPT ![t] = "teardown_kill"]
            /\ result' = result
       ELSE /\ pc' = [pc EXCEPT ![t] = "done"]
            /\ result' = [result EXCEPT ![t] = "SSHError"]
            /\ UNCHANGED <<proxies, victim>>
  /\ UNCHANGED <<open, listen, timeoutIsOSError, retry, budget, attempts, conn,
                 lastExc, refusedOnly>>

TeardownKillDone(t) ==
  /\ UNCHANGED storeVars
  /\ pc[t] = "teardown_kill"
  /\ open' = OpenAfterKill(victim[t])
  /\ listen' = ListenAfterKill(victim[t])
  /\ victim' = [victim EXCEPT ![t] = NoConn]
  /\ pc' = [pc EXCEPT ![t] = "done"]
  /\ result' = [result EXCEPT ![t] = "None"]
  /\ UNCHANGED <<proxies, timeoutIsOSError, op, lport, retry, budget, attempts,
                 conn, lastExc, refusedOnly>>

\* The caller has its answer; the task takes up its next call.
Return(t) ==
  /\ UNCHANGED storeVars
  /\ pc[t] = "done"
  /\ pc' = [pc EXCEPT ![t] = "idle"]
  /\ op' = [op EXCEPT ![t] = "none"]
  /\ lport' = [lport EXCEPT ![t] = NoPort]
  /\ retry' = [retry EXCEPT ![t] = 0]
  /\ budget' = [budget EXCEPT ![t] = 0]
  /\ attempts' = [attempts EXCEPT ![t] = 0]
  /\ conn' = [conn EXCEPT ![t] = NoConn]
  /\ victim' = [victim EXCEPT ![t] = NoConn]
  /\ lastExc' = [lastExc EXCEPT ![t] = "none"]
  /\ refusedOnly' = [refusedOnly EXCEPT ![t] = TRUE]
  /\ result' = [result EXCEPT ![t] = "none"]
  /\ UNCHANGED <<proxies, open, listen, timeoutIsOSError>>

\* ================================================================ entities
\* src/models/models.py. Every mutator is wrapped by auto_renew_objects and
\* runs as one transaction: the attribute writes, then the before_update hook
\* of the entity that changed, are one step.

\* A hook that sets time_connected and never empties it.
TimeAfterUpdateKept(connected, tc) ==
  IF tc # NoTime THEN tc ELSE (IF connected THEN now ELSE NoTime)

\* A hook that stamps time_connected at every update of a connected port.
TimeAfterUpdateRefreshed(connected, tc) ==
  IF connected THEN now ELSE NoTime

\* Port.before_update, time_connected: kept while connected, else emptied.
TimeAfterUpdate(connected, tc) ==
  IF connected THEN (IF tc # NoTime THEN tc ELSE now) ELSE NoTime

\* Port.before_update, used_ssh_list: the credential of a connected port joins.
UsedAfterUpdate(connected, s, used) ==
  IF connected /\ s # NoSsh /\ s \notin used THEN used \cup {s} ELSE used

\* Port.ssh and SSH.port are the two ends of one one-to-one relation: giving a
\* port a credential another port holds takes it from that port.
SshAfterAssign(p, s) ==
  [q \in Ports |-> IF q = p THEN s
                   ELSE IF s # NoSsh /\ ssh[q] = s THEN NoSsh ELSE ssh[q]]

\* Port.need_reset(time_expired)
need_reset(p, time_expired) ==
  time_connected[p] # NoTime /\ time_connected[p] < time_expired

\* Port.need_ssh
need_ssh(p) == ssh[p] = NoSsh

\* A query that drops only the credentials known to be dead.
CandidatesNotDead(p, unique) ==
  {c \in stored : is_live[c] # "False" /\ (unique => c \notin used_ssh_list[p])}

\* SSH.get_ssh_for_port: the rows the query keeps. `lambda s: s.is_live` keeps
\* the rows whose is_live is true (not NULL, not false); unique filters out the
\* members of port.used_ssh_list.
Candidates(p, unique) ==
  {c \in stored : is_live[c] = "True" /\ (unique => c \notin used_ssh_list[p])}

\* query.random(1): any one of the rows, or None when there is none.
GetSshForPortResults(p, unique) ==
  IF Candidates(p, unique) # {} THEN Candidates(p, unique) ELSE {NoSsh}

\* Port.assign_ssh(ssh), then Port.before_update.
PortAssignSsh(p, s) ==
  /\ ssh' = SshAfterAssign(p, s)
  /\ is_connected' = [is_connected EXCEPT ![p] = FALSE]
  /\ time_connected' = [time_connected EXCEPT ![p] = TimeAfterUpdate(FALSE, @)]
  /\ used_ssh_list' = [used_ssh_list EXCEPT ![p] = UsedAfterUpdate(FALSE, s, @)]
  /\ was_connected' = was_connected

\* Port.disconnect_ssh(remove_from_used): used_ssh_list.remove(self.ssh) when
\* asked to and a credential is assigned, then assign_ssh(None).
UsedAfterDisconnect(p, remove_from_used) ==
  IF remove_from_used /\ ssh[p] # NoSsh
    THEN used_ssh_list[p] \ {ssh[p]}
    ELSE used_ssh_list[p]

PortDisconnectSsh(p, remove_from_used) ==
  /\ ssh' = SshAfterAssign(p, NoSsh)
  /\ is_connected' = [is_connected EXCEPT ![p] = FALSE]
  /\ time_connected' = [time_connected EXCEPT ![p] = TimeAfterUpdate(FALSE, @)]
  /\ used_ssh_list' = [used_ssh_list EXCEPT ![p] =
                         UsedAfterUpdate(FALSE, NoSsh, UsedAfterDisconnect(p, remove_from_used))]
  /\ was_connected' = [was_connected EXCEPT ![p] = IF remove_from_used THEN {} ELSE @]

\* Model._update_check_result(**kwargs) on a Port, then Port.before_update.
PortUpdateCheckResult(p, connected, working, ip) ==
  /\ is_connected' = [is_connected EXCEPT ![p] = connected]
  /\ is_working' = [is_working EXCEPT ![p] = working]
  /\ public_ip' = [public_ip EXCEPT ![p] = ip]
  /\ time_connected' = [time_connected EXCEPT ![p] = TimeAfterUpdate(connected, @)]
  /\ used_ssh_list' = [used_ssh_list EXCEPT ![p] = UsedAfterUpdate(connected, ssh[p], @)]
  /\ was_connected' = [was_connected EXCEPT ![p] =
                         IF connected /\ ssh[p] # NoSsh /\ p \in watched
                           THEN @ \cup {ssh[p]}
                           ELSE @]

\* SSH.before_update: the port the credential is bound to joins its used_ports,
\* which is the credential joining that port's used_ssh_list.
UsedAfterSshUpdate(c) ==
  [p \in Ports |-> IF ssh[p] = c /\ c \notin used_ssh_list[p]
                     THEN used_ssh_list[p] \cup {c}
                     ELSE used_ssh_list[p]]

\* ------------------------------------------------------- entity operations

\* The liveness check of a credential stores its result:
\* Model._update_check_result(is_live=...), then SSH.before_update.
SshUpdateCheckResult(c, live) ==
  /\ UNCHANGED <<tunnelVars, watched>>
  /\ c \in stored
  /\ is_live' = [is_live EXCEPT ![c] = live]
  /\ used_ssh_list' = UsedAfterSshUpdate(c)
  /\ UNCHANGED <<now, stored, ssh, is_connected, is_working, public_ip,
                 time_connected, wpc, wport, wsel, wunique, was_connected>>

\* The health check of a connected port stores what get_proxy_ip saw through
\* the proxy: the address, and working when there is one.
HealthCheck(p, ip) ==
  /\ UNCHANGED <<tunnelVars, watched>>
  /\ is_connected[p]
  /\ PortUpdateCheckResult(p, TRUE, ip # "", ip)
  /\ UNCHANGED <<now, stored, is_live, ssh, wpc, wport, wsel, wunique>>

DisconnectSsh(p, remove_from_used) ==
  /\ UNCHANGED <<tunnelVars, watched>>
  /\ PortDisconnectSsh(p, remove_from_used)
  /\ UNCHANGED <<now, stored, is_live, is_working, public_ip, wpc, wport, wsel, wunique>>

\* SSH.delete(): the row goes; Pony empties the other end of each relation
\* (Port.ssh of the port bound to it, used_ssh_list of the ports that used it),
\* and the port whose ssh was emptied is updated, so Port.before_update runs
\* on it. The attributes of the row go with it.
SshAfterDelete(c) ==
  [p \in Ports |-> IF ssh[p] = c THEN NoSsh ELSE ssh[p]]

UsedAfterDelete(c) ==
  [p \in Ports |-> used_ssh_list[p] \ {c}]

TimeAfterDelete(c) ==
  [p \in Ports |-> IF ssh[p] = c
                     THEN TimeAfterUpdate(is_connected[p], time_connected[p])
                     ELSE time_connected[p]]

\* if not self.is_live: false and None (not checked) alike.
Died(c) == is_live[c] # "True"

\* SSH.delete_if_died
DeleteIfDied(c) ==
  /\ UNCHANGED <<tunnelVars, watched>>
  /\ c \in stored
  /\ IF Died(c)
       THEN /\ stored' = stored \ {c}
            /\ is_live' = [is_live EXCEPT ![c] = "None"]
            /\ ssh' = SshAfterDelete(c)
            /\ used_ssh_list' = UsedAfterDelete(c)
            /\ time_connected' = TimeAfterDelete(c)
            /\ was_connected' = [p \in Ports |-> was_connected[p] \ {c}]
       ELSE UNCHANGED <<stored, is_live, ssh, used_ssh_list, time_connected,
                        was_connected>>
  /\ UNCHANGED <<now, is_connected, is_working, public_ip, wpc, wport, wsel, wunique>>

\* Port.reset_status, then Port.before_update.
ResetStatus(p) ==
  /\ UNCHANGED <<tunnelVars, watched>>
  /\ public_ip' = [public_ip EXCEPT ![p] = ""]
  /\ ssh' = SshAfterAssign(p, NoSsh)
  /\ is_connected' = [is_connected EXCEPT ![p] = FALSE]
  /\ used_ssh_list' = [used_ssh_list EXCEPT ![p] = UsedAfterUpdate(FALSE, NoSsh, {})]
  /\ is_working' = [is_working EXCEPT ![p] = FALSE]
  /\ time_connected' = [time_connected EXCEPT ![p] = TimeAfterUpdate(FALSE, @)]
  /\ was_connected' = [was_connected EXCEPT ![p] = {}]
  /\ UNCHANGED <<now, stored, is_live, wpc, wport, wsel, wunique>>

\* Time passes.
Tick ==
  /\ UNCHANGED <<tunnelVars, watched>>
  /\ now < MaxTime
  /\ now' = now + 1
  /\ UNCHANGED <<stored, is_live, ssh, is_connected, is_working, public_ip,
                 time_connected, used_ssh_list, wpc, wport, wsel, wunique,
                 was_connected>>

\* ------------------------------------------------------- the orchestrator
\* A worker populates a port: it reads need_ssh, selects a credential, binds
\* it, has the tunnel established and stores the outcome. Each entity call is
\* a transaction of its own; the worker can be overtaken between any two.

\* The worker is done with its port.
WorkerRests(w) ==
  /\ wpc' = [wpc EXCEPT ![w] = "idle"]
  /\ wport' = [wport EXCEPT ![w] = NoPort]
  /\ wsel' = [wsel EXCEPT ![w] = NoSsh]
  /\ wunique' = [wunique EXCEPT ![w] = FALSE]

WorkerNeedSsh(w, p) ==
  /\ UNCHANGED <<tunnelVars, watched>>
  /\ wpc[w] = "idle"
  /\ need_ssh(p)
  /\ wpc' = [wpc EXCEPT ![w] = "select"]
  /\ wport' = [wport EXCEPT ![w] = p]
  /\ wsel' = [wsel EXCEPT ![w] = NoSsh]
  /\ UNCHANGED <<now, stored, is_live, ssh, is_connected, is_working, public_ip,
                 time_connected, used_ssh_list, wunique, was_connected>>

WorkerSelect(w, unique) ==
  /\ UNCHANGED <<tunnelVars, watched>>
  /\ wpc[w] = "select"
  /\ \E s \in GetSshForPortResults(wport[w], unique) :
       /\ wsel' = [wsel EXCEPT ![w] = s]
       /\ wpc' = [wpc EXCEPT ![w] = IF s = NoSsh THEN "none_found" ELSE "assign"]
  /\ wunique' = [wunique EXCEPT ![w] = unique]
  /\ UNCHANGED <<now, stored, is_live, ssh, is_connected, is_working, public_ip,
                 time_connected, used_ssh_list, wport, was_connected>>

\* port.assign_ssh(ssh) with what the selection returned. A row deleted since
\* then cannot be written to: the call raises, nothing is stored and the worker
\* leaves the port for its next round.
WorkerAssign(w) ==
  /\ UNCHANGED <<tunnelVars, watched>>
  /\ wpc[w] = "assign"
  /\ IF wsel[w] \in stored
       THEN /\ PortAssignSsh(wport[w], wsel[w])
            /\ wpc' = [wpc EXCEPT ![w] = "establish"]
            /\ wsel' = [wsel EXCEPT ![w] = NoSsh]
            /\ wunique' = [wunique EXCEPT ![w] = FALSE]
            /\ wport' = wport
       ELSE /\ WorkerRests(w)
            /\ UNCHANGED <<ssh, is_connected, time_connected, used_ssh_list,
                            was_connected>>
  /\ UNCHANGED <<now, stored, is_live, is_working, public_ip>>

\* connect_ssh returned a session: the port is stored as connected.
WorkerConnected(w) ==
  /\ UNCHANGED <<tunnelVars, watched>>
  /\ wpc[w] = "establish"
  /\ PortUpdateCheckResult(wport[w], TRUE, is_working[wport[w]], public_ip[wport[w]])
  /\ WorkerRests(w)
  /\ UNCHANGED <<now, stored, is_live, ssh>>

\* connect_ssh raised SSHError: the port goes back to unassigned.
WorkerFailed(w) ==
  /\ UNCHANGED <<tunnelVars, watched>>
  /\ wpc[w] = "establish"
  /\ PortDisconnectSsh(wport[w], FALSE)
  /\ WorkerRests(w)
  /\ UNCHANGED <<now, stored, is_live, is_working, public_ip>>

\* No credential was found: the worker gives up until its next round.
WorkerGiveUp(w) ==
  /\ UNCHANGED <<tunnelVars, watched>>
  /\ wpc[w] = "none_found"
  /\ WorkerRests(w)
  /\ UNCHANGED <<now, stored, is_live, ssh, is_connected, is_working, public_ip,
                 time_connected, used_ssh_list, was_connected>>

\* --------------------------------------------------------- specification

TunnelInit ==
  /\ proxies = <<>>
  /\ open = {}
  /\ listen = [c \in ConnIds |-> NoPort]
  /\ timeoutIsOSError \in BOOLEAN
  /\ op = [t \in Tasks |-> "none"]
  /\ pc = [t \in Tasks |-> "idle"]
  /\ lport = [t \in Tasks |-> NoPort]
  /\ retry = [t \in Tasks |-> 0]
  /\ budget = [t \in Tasks |-> 0]
  /\ attempts = [t \in Tasks |-> 0]
  /\ conn = [t \in Tasks |-> NoConn]
  /\ victim = [t \in Tasks |-> NoConn]
  /\ lastExc = [t \in Tasks |-> "none"]
  /\ refusedOnly = [t \in Tasks |-> TRUE]
  /\ result = [t \in Tasks |-> "none"]

StoreInit ==
  /\ now = 0
  /\ stored = Creds
  /\ is_live = [c \in Creds |-> "None"]
  /\ ssh = [p \in Ports |-> NoSsh]
  /\ is_connected = [p \in Ports |-> FALSE]
  /\ is_working = [p \in Ports |-> FALSE]
  /\ public_ip = [p \in Ports |-> ""]
  /\ time_connected = [p \in Ports |-> NoTime]
  /\ used_ssh_list = [p \in Ports |-> {}]
  /\ wpc = [w \in Workers |-> "idle"]
  /\ wport = [w \in Workers |-> NoPort]
  /\ wsel = [w \in Workers |-> NoSsh]
  /\ wunique = [w \in Workers |-> FALSE]
  /\ watched = {}
  /\ was_connected = [p \in Ports |-> {}]

\* The steps tasks T of the tunnel layer can take.
TunnelNext(T) ==
  \/ \E t \in T, p \in LocalPorts, r \in 0..MaxRetry : StartConnect(t, p, r)
  \/ \E t \in T, p \in LocalPorts : StartVerify(t, p)
  \/ \E t \in T, p \in LocalPorts : StartTeardown(t, p)
  \/ \E t \in T : KillOldDone(t)
  \/ \E t \in T, o \in ConnectOutcomes : ConnectReturns(t, o)
  \/ \E t \in T, o \in ForwardOutcomes : ForwardReturns(t, o)
  \/ \E t \in T, ip \in BOOLEAN : LookupReturns(t, ip)
  \/ \E t \in T : KillFailedDone(t)
  \/ \E t \in T : VerifyKillDone(t)
  \/ \E t \in T : TeardownKillDone(t)
  \/ \E t \in T : Return(t)

\* The entity operations, which any caller can run at any time.
EntityNext ==
  \/ \E c \in Creds, live \in {"True", "False"} : SshUpdateCheckResult(c, live)
  \/ \E p \in Ports, ip \in {"", "ip"} : HealthCheck(p, ip)
  \/ \E p \in Ports, remove_from_used \in BOOLEAN : DisconnectSsh(p, remove_from_used)
  \/ \E p \in Ports : ResetStatus(p)

\* The selection steps of workers W.
SelectNext(W) ==
  \/ \E w \in W, p \in Ports : WorkerNeedSsh(w, p)
  \/ \E w \in W, unique \in BOOLEAN : WorkerSelect(w, unique)
  \/ \E w \in W : WorkerGiveUp(w)

\* The binding steps of workers W.
BindNext(W) ==
  \/ \E w \in W : WorkerAssign(w)
  \/ \E w \in W : WorkerConnected(w)
  \/ \E w \in W : WorkerFailed(w)

Init == TunnelInit /\ StoreInit

\* The tunnel layer: tasks run connect_ssh, verify_ssh and kill_proxy_on_port
\* concurrently.
Next == TunnelNext(Tasks)

Spec == Init /\ [][Next]_vars

\* The tunnel layer with one call in flight at a time.
NextCall == TunnelNext({1})

SpecCall == Init /\ [][NextCall]_vars

\* The entity layer does not read the interpreter's exception hierarchy.
InitStore == TunnelInit /\ StoreInit /\ timeoutIsOSError

\* The entity layer at one instant of the clock: the entity operations and
\* the orchestrator's workers, interleaved.
NextStore == EntityNext \/ SelectNext(Workers) \/ BindNext(Workers)

SpecStore == InitStore /\ [][NextStore]_vars

\* The entity layer as time passes, with one worker.
NextClock ==
  \/ Tick
  \/ \E c \in Creds : DeleteIfDied(c)
  \/ EntityNext \/ SelectNext({1}) \/ BindNext({1})

SpecClock == InitStore /\ [][NextClock]_vars

\* One port through its life as time passes: populated by one worker, health
\* checked, disconnected, reset, its credential checked and deleted.
NextTime ==
  \/ Tick
  \/ \E c \in Creds, live \in {"True", "False"} : SshUpdateCheckResult(c, live)
  \/ \E c \in Creds : DeleteIfDied(c)
  \/ \E ip \in {"", "ip"} : HealthCheck(1, ip)
  \/ \E remove_from_used \in BOOLEAN : DisconnectSsh(1, remove_from_used)
  \/ ResetStatus(1)
  \/ WorkerNeedSsh(1, 1)
  \/ \E unique \in BOOLEAN : WorkerSelect(1, unique)
  \/ WorkerGiveUp(1)
  \/ BindNext({1})

SpecTime == InitStore /\ [][NextTime]_vars

\* The entity layer with credentials being deleted, with one worker.
NextDelete ==
  \/ \E c \in Creds : DeleteIfDied(c)
  \/ EntityNext \/ SelectNext({1}) \/ BindNext({1})

SpecDelete == InitStore /\ [][NextDelete]_vars

\* The unique policy: credentials are checked, the workers populate the ports,
\* always selecting with unique set, and ports are disconnected without
\* remove_from_used and never reset. Every connection of every port is
\* recorded.
InitUnique ==
  /\ TunnelInit
  /\ timeoutIsOSError
  /\ now = 0
  /\ stored = Creds
  /\ is_live = [c \in Creds |-> "None"]
  /\ ssh = [p \in Ports |-> NoSsh]
  /\ is_connected = [p \in Ports |-> FALSE]
  /\ is_working = [p \in Ports |-> FALSE]
  /\ public_ip = [p \in Ports |-> ""]
  /\ time_connected = [p \in Ports |-> NoTime]
  /\ used_ssh_list = [p \in Ports |-> {}]
  /\ wpc = [w \in Workers |-> "idle"]
  /\ wport = [w \in Workers |-> NoPort]
  /\ wsel = [w \in Workers |-> NoSsh]
  /\ wunique = [w \in Workers |-> FALSE]
  /\ watched = Ports
  /\ was_connected = [p \in Ports |-> {}]

NextUnique ==
  \/ \E c \in Creds, live \in {"True", "False"} : SshUpdateCheckResult(c, live)
  \/ \E p \in Ports : DisconnectSsh(p, FALSE)
  \/ \E w \in Workers, p \in Ports : WorkerNeedSsh(w, p)
  \/ \E w \in Workers : WorkerSelect(w, TRUE)
  \/ \E w \in Workers : WorkerGiveUp(w)
  \/ BindNext(Workers)

SpecUnique == InitUnique /\ [][NextUnique]_vars

\* SSH.get_ssh_for_port as a query: the table of credentials and the port's
\* history are drawn from all their values, and a worker selects.
InitSelect ==
  /\ TunnelInit
  /\ timeoutIsOSError
  /\ now = 0
  /\ stored = Creds
  /\ is_live \in [Creds -> {"None", "True", "False"}]
  /\ ssh = [p \in Ports |-> NoSsh]
  /\ is_connected = [p \in Ports |-> FALSE]
  /\ is_working = [p \in Ports |-> FALSE]
  /\ public_ip = [p \in Ports |-> ""]
  /\ time_connected = [p \in Ports |-> NoTime]
  /\ used_ssh_list \in [Ports -> SUBSET Creds]
  /\ wpc = [w \in Workers |-> "idle"]
  /\ wport = [w \in Workers |-> NoPort]
  /\ wsel = [w \in Workers |-> NoSsh]
  /\ wunique = [w \in Workers |-> FALSE]
  /\ watched = {}
  /\ was_connected = [p \in Ports |-> {}]

NextSelect == SelectNext({1})

SpecSelect == InitSelect /\ [][NextSelect]_vars

\* ================================================================== claims

Failed(t) == pc[t] = "done" /\ result[t] \in {"SSHError", "False"}

Establishing(t) == op[t] \in {"connect_ssh", "verify_ssh"}

Registered(c) == \E i \in DOMAIN proxies : proxies[i].connection = c

\* C1: while every connection attempt of a connect_ssh call made with
\* retry = N has ended in an OSError of asyncssh.connect, the call has made at
\* most N+1 attempts, and when it has ended it has made exactly N+1 and has
\* failed with SSHError.
C1_RetryBound ==
  \A t \in Tasks :
    (Establishing(t) /\ refusedOnly[t]) =>
      /\ attempts[t] <= budget[t] + 1
      /\ pc[t] = "done" => (Failed(t) /\ attempts[t] = budget[t] + 1)

C1_Witness ==
  \E t \in Tasks :
    /\ op[t] = "connect_ssh" /\ refusedOnly[t] /\ budget[t] = MaxRetry
    /\ pc[t] = "done" /\ result[t] = "SSHError" /\ attempts[t] = MaxRetry + 1

\* C2: once an asyncssh.Error has been raised inside connect_ssh, the call has
\* ended with SSHError: it is not waiting on another connection attempt,
\* whatever retry budget is left.
C2_ProtocolNotRetried ==
  \A t \in Tasks : lastExc[t] = "Error" => Failed(t)

C2_Witness ==
  \E t \in Tasks : lastExc[t] = "Error" /\ retry[t] > 0 /\ Failed(t)

\* C3: when get_proxy_ip returns nothing, the call closes its connection and
\* ends with SSHError; the connection is never in `proxies`, and no further
\* attempt follows, whatever retry budget is left.
C3_FailedLookupTearsDown ==
  \A t \in Tasks :
    /\ pc[t] = "kill_failed" => ~Registered(conn[t])
    /\ lastExc[t] = "SSHError" =>
         /\ Failed(t)
         /\ conn[t] \notin open
         /\ ~Registered(conn[t])

C3_Witness ==
  \E t \in Tasks :
    /\ lastExc[t] = "SSHError" /\ retry[t] > 0 /\ Failed(t)
    /\ conn[t] # NoConn /\ conn[t] \notin open

\* C4: `proxies` never holds two sessions with the same port.
C4_OneSessionPerPort ==
  \A i, j \in DOMAIN proxies : i # j => proxies[i].port # proxies[j].port

\* C5: when verify_ssh has returned, True or False, `proxies` holds no session
\* for the port the call used.
C5_VerifyLeavesNoSession ==
  \A t \in Tasks :
    (op[t] = "verify_ssh" /\ pc[t] = "done") => ~HasProxy(lport[t])

\* C6: a port that is working is connected.
C6_WorkingImpliesConnected ==
  \A p \in Ports : is_working[p] => is_connected[p]

PortEmpty(p) ==
  /\ ssh[p] = NoSsh
  /\ ~is_connected[p]
  /\ ~is_working[p]
  /\ public_ip[p] = ""
  /\ time_connected[p] = NoTime
  /\ used_ssh_list[p] = {}

\* C7: every step of Port.disconnect_ssh(remove_from_used=True) leaves the
\* port with no credential, not connected, not working, without public_ip and
\* time_connected, and with an empty used_ssh_list.
C7_DisconnectClearsPort ==
  [][\A p \in Ports : DisconnectSsh(p, TRUE) => PortEmpty(p)']_vars

\* C8: when get_ssh_for_port returns a credential, the credential is live and,
\* with unique set, not in the port's used_ssh_list; when it returns None, no
\* such credential exists.
C8_SelectsLiveUnused ==
  [][\A w \in Workers :
       /\ (wpc[w] = "select" /\ wpc'[w] = "assign") =>
            /\ wsel'[w] \in Creds
            /\ is_live[wsel'[w]] = "True"
            /\ wunique'[w] => wsel'[w] \notin used_ssh_list[wport[w]]
       /\ (wpc[w] = "select" /\ wpc'[w] = "none_found") =>
            ~\E c \in Creds :
               /\ is_live[c] = "True"
               /\ wunique'[w] => c \notin used_ssh_list[wport[w]]
       /\ wpc[w] = "select" => wpc'[w] \in {"select", "assign", "none_found"}]_vars

\* A selection with unique set passed over a live credential the port has used.
C8_Witness ==
  \E w \in Workers :
    /\ wpc[w] = "assign" /\ wunique[w]
    /\ is_live[wsel[w]] = "True"
    /\ \E c \in used_ssh_list[wport[w]] : is_live[c] = "True" /\ c # wsel[w]

\* C9: a credential joins a port's used_ssh_list only in a step that leaves the
\* port connected with that credential assigned.
C9_UsedOnlyWhenConnected ==
  [][\A p \in Ports : \A c \in used_ssh_list'[p] \ used_ssh_list[p] :
       is_connected'[p] /\ ssh'[p] = c]_vars

\* C10: no step replaces the credential a port holds by another credential.
C10_BindingIsCompareAndSet ==
  [][\A p \in Ports : ssh[p] # NoSsh => ssh'[p] \in {ssh[p], NoSsh}]_vars

\* C11: SSH.delete_if_died deletes the credential exactly when its is_live is
\* false; a credential that is live or has not been checked stays in the
\* store.
C11_DeletesOnlyDead ==
  [][\A c \in Creds :
       DeleteIfDied(c) => (c \notin stored' <=> is_live[c] = "False")]_vars

\* C12: a connect_ssh call fails on an asyncio.TimeoutError of the handshake
\* only when its retry budget is spent: with budget left the timeout is
\* followed by another attempt.
C12_TimeoutIsRetried ==
  \A t \in Tasks :
    (Establishing(t) /\ lastExc[t] = "TimeoutError" /\ Failed(t)) => retry[t] = 0

\* C13: kill_proxy_on_port on a port that has a session in `proxies` removes
\* it and goes on to close its connection, so that no session of the port is
\* left and the same call made again raises SSHError; on a port that has none
\* it raises SSHError and leaves `proxies` as it was. The call that removed a
\* session returns with the connection closed.
C13_TeardownTwice ==
  [][\A t \in Tasks :
       /\ \A p \in LocalPorts :
            StartTeardown(t, p) =>
              IF HasProxy(p)
                THEN /\ pc'[t] = "teardown_kill"
                     /\ victim'[t] = FirstProxy(p).connection
                     /\ \A i \in DOMAIN proxies' : proxies'[i].port # p
                ELSE /\ pc'[t] = "done" /\ result'[t] = "SSHError"
                     /\ proxies' = proxies
       /\ TeardownKillDone(t) =>
            /\ victim[t] \notin open'
            /\ result'[t] = "None"]_vars

\* C14: need_reset(now - staleAfter) is true exactly when the port is
\* connected and now - time_connected > staleAfter; it is false for every port
\* that is not connected.
C14_NeedResetIffConnectedStale ==
  \A p \in Ports : \A staleAfter \in 0..MaxTime :
    /\ need_reset(p, now - staleAfter) <=>
         (is_connected[p] /\ now - time_connected[p] > staleAfter)
    /\ ~is_connected[p] => ~need_reset(p, now - staleAfter)

\* A port has been connected for longer than staleAfter = 0 and needs a reset.
C14_Witness ==
  \E p \in Ports :
    /\ is_connected[p] /\ time_connected[p] < now
    /\ need_reset(p, now) /\ ~need_reset(p, now - MaxTime)

\* C18: time_connected is set exactly while the port is connected; the step
\* that connects the port sets it to the time of the step, a step that leaves
\* the port connected leaves it as it is, and a step that leaves the port not
\* connected leaves it empty.
C18_TimeConnectedTracksConnection ==
  /\ [](\A p \in Ports : time_connected[p] # NoTime <=> is_connected[p])
  /\ [][\A p \in Ports :
          /\ (~is_connected[p] /\ is_connected'[p]) => time_connected'[p] = now
          /\ (is_connected[p] /\ is_connected'[p]) =>
               time_connected'[p] = time_connected[p]
          /\ ~is_connected'[p] => time_connected'[p] = NoTime]_vars

\* A connected port has been health checked and its time_connected is in the
\* past.
C18_Witness ==
  \E p \in Ports :
    /\ is_connected[p] /\ public_ip[p] = "ip"
    /\ time_connected[p] # NoTime /\ time_connected[p] < now

\* C15: verify_ssh returns True only out of the close that follows a
\* connect_ssh that returned a session (connection open, listener bound to the
\* port, address looked up), and returns False, never SSHError, whenever
\* connect_ssh raised.
C15_VerifyReturnsOutcome ==
  [][\A t \in Tasks :
       (op'[t] = "verify_ssh") =>
         /\ result'[t] \in {"none", "True", "False"}
         /\ (pc'[t] = "verify_kill" /\ pc[t] # "verify_kill") =>
              /\ pc[t] = "lookup"
              /\ conn[t] \in open /\ listen[conn[t]] = lport[t]
              /\ Registered(conn[t])'
         /\ (pc'[t] = "done" /\ pc[t] # "done") =>
              IF pc[t] = "verify_kill"
                THEN result'[t] = "True"
                ELSE /\ result'[t] = "False"
                     /\ lastExc'[t] \in {"OSError", "Error", "TimeoutError", "SSHError"}
         /\ pc'[t] = "done" <=> result'[t] # "none"]_vars

\* verify_ssh returned False after a retried connection error and a failed
\* address lookup.
C15_Witness ==
  \E t \in Tasks :
    /\ op[t] = "verify_ssh" /\ pc[t] = "done" /\ result[t] = "False"
    /\ lastExc[t] = "SSHError" /\ attempts[t] > 1

\* C16: under the unique policy, with no reset, no step connects a port with
\* a credential it has been connected with before, and disconnect_ssh()
\* empties Port.ssh and leaves used_ssh_list as it was.
C16_NeverConnectedTwice ==
  [][\A p \in Ports :
       /\ \A c \in Creds :
            (/\ is_connected'[p] /\ ssh'[p] = c
             /\ ~(is_connected[p] /\ ssh[p] = c)) => c \notin was_connected[p]
       /\ DisconnectSsh(p, FALSE) =>
            (ssh'[p] = NoSsh /\ used_ssh_list'[p] = used_ssh_list[p])]_vars

\* The sessions of `proxies` on ports other than p, in order.
OtherSessions(s, p) == SelectSeq(s, LAMBDA x : x.port # p)

\* C17: connect_ssh on a port begins by taking the session of that port out
\* of `proxies`, leaving the sessions of other ports as they are, and closes
\* its connection before the first connection attempt: from there on, however
\* the call ends, no session registered before the call is left on the port.
C17_EstablishTearsDownFirst ==
  [][\A t \in Tasks :
       /\ \A p \in LocalPorts :
            (StartVerify(t, p) \/ \E r \in 0..MaxRetry : StartConnect(t, p, r)) =>
              /\ \A i \in DOMAIN proxies' : proxies'[i].port # p
              /\ OtherSessions(proxies', p) = OtherSessions(proxies, p)
              /\ IF HasProxy(p)
                   THEN pc'[t] = "kill_old" /\ victim'[t] = FirstProxy(p).connection
                   ELSE pc'[t] = "connect" /\ proxies' = proxies
       /\ KillOldDone(t) =>
            /\ victim[t] \notin open'
            /\ pc'[t] = "connect"
            /\ proxies' = proxies]_vars

\* C19: every open connection is the connection of a session in `proxies` or
\* is in the hands of a call that has not ended yet: a connect_ssh that has
\* returned, raised or gone on to its next attempt has left no connection
\* open outside `proxies`.
C19_NoLeakedConnection ==
  \A c \in open :
    \/ Registered(c)
    \/ \E t \in Tasks :
         /\ pc[t] \notin {"idle", "done"}
         /\ conn[t] = c \/ victim[t] = c

ConnectedHasCredential == \A p \in Ports : is_connected[p] => ssh[p] # NoSsh

OnePortPerCredential ==
  \A p, q \in Ports : (p # q /\ ssh[p] # NoSsh) => ssh[p] # ssh[q]

\* C20: a connected port has a credential assigned and no credential is
\* assigned to two ports; SSH.delete_if_died and Port.assign_ssh keep it so,
\* also when the credential deleted, or the credential assigned, is bound to
\* a connected port.
C20_BindingStaysConsistent ==
  [][(/\ ConnectedHasCredential /\ OnePortPerCredential
      /\ \/ \E c \in Creds : DeleteIfDied(c)
         \/ \E w \in Workers : WorkerAssign(w))
       => (ConnectedHasCredential /\ OnePortPerCredential)']_vars

====
